---- MODULE Spec2Model ----
(***************************************************************************)
(* Model of net/nimble/host/src/ble_hs_adv.c: the codec of BLE advertising *)
(* data.  ble_hs_adv_set_fields serialises a field-set into length/type/   *)
(* value records; ble_hs_adv_parse_fields parses such records back into a  *)
(* field-set.                                                              *)
(*                                                                         *)
(* Bytes are 0..255.  uint8_t arithmetic wraps (% 256) exactly where the   *)
(* C code stores into a uint8_t.  Memory is modelled as a function from    *)
(* the indices that were written to the byte written there, so that a      *)
(* write past a limit is observable.                                       *)
(***************************************************************************)
EXTENDS Integers, Sequences, FiniteSets, TLC

----------------------------------------------------------------------------
(* Error codes (host/ble_hs.h) and field constants (host/ble_hs_adv.h).    *)

BLE_HS_EMSGSIZE == 4
BLE_HS_EBADDATA == 10
BLE_HS_ECONTROLLER == 12

BLE_HS_ADV_MAX_FIELD_SZ == 29

BLE_HS_ADV_TYPE_FLAGS == 1
BLE_HS_ADV_TYPE_INCOMP_UUIDS16 == 2
BLE_HS_ADV_TYPE_COMP_UUIDS16 == 3
BLE_HS_ADV_TYPE_INCOMP_UUIDS32 == 4
BLE_HS_ADV_TYPE_COMP_UUIDS32 == 5
BLE_HS_ADV_TYPE_INCOMP_UUIDS128 == 6
BLE_HS_ADV_TYPE_COMP_UUIDS128 == 7
BLE_HS_ADV_TYPE_INCOMP_NAME == 8
BLE_HS_ADV_TYPE_COMP_NAME == 9
BLE_HS_ADV_TYPE_TX_PWR_LVL == 10
BLE_HS_ADV_TYPE_DEVICE_CLASS == 13
BLE_HS_ADV_TYPE_SLAVE_ITVL_RANGE == 18
BLE_HS_ADV_TYPE_SVC_DATA_UUID16 == 22
BLE_HS_ADV_TYPE_PUBLIC_TGT_ADDR == 23
BLE_HS_ADV_TYPE_APPEARANCE == 25
BLE_HS_ADV_TYPE_ADV_ITVL == 26
BLE_HS_ADV_TYPE_LE_ADDR == 27
BLE_HS_ADV_TYPE_LE_ROLE == 28
BLE_HS_ADV_TYPE_SVC_DATA_UUID32 == 32
BLE_HS_ADV_TYPE_SVC_DATA_UUID128 == 33
BLE_HS_ADV_TYPE_URI == 36
BLE_HS_ADV_TYPE_MFG_DATA == 255

BLE_HS_ADV_FLAGS_LEN == 1
BLE_HS_ADV_TX_PWR_LVL_LEN == 1
BLE_HS_ADV_DEVICE_CLASS_LEN == 3
BLE_HS_ADV_SLAVE_ITVL_RANGE_LEN == 4
BLE_HS_ADV_SVC_DATA_UUID16_MIN_LEN == 2
BLE_HS_ADV_PUBLIC_TGT_ADDR_ENTRY_LEN == 6
BLE_HS_ADV_APPEARANCE_LEN == 2
BLE_HS_ADV_ADV_ITVL_LEN == 2
BLE_HS_ADV_LE_ADDR_LEN == 7
BLE_HS_ADV_LE_ROLE_LEN == 1
BLE_HS_ADV_SVC_DATA_UUID32_MIN_LEN == 4
BLE_HS_ADV_SVC_DATA_UUID128_MIN_LEN == 16

BLE_HS_ADV_TX_PWR_LVL_AUTO == -128

----------------------------------------------------------------------------
(* Integer widths and byte order.                                          *)

U8(x) == x % 256

Min(a, b) == IF a < b THEN a ELSE b

\* int8_t <-> its byte.
I8ToByte(v) == v % 256
ByteToI8(b) == IF b >= 128 THEN b - 256 ELSE b

\* htole16 / htole32: the bytes stored, lowest address first.
htole16(v) == << v % 256, (v \div 256) % 256 >>
\* A uint32_t is held as its two 16-bit halves [hi, lo], so that every
\* 32-bit value is represented.
U32(hi, lo) == [hi |-> hi, lo |-> lo]
htole32(v) ==
    << v.lo % 256, (v.lo \div 256) % 256, v.hi % 256, (v.hi \div 256) % 256 >>

\* le16toh / le32toh of the bytes b (lowest address first).
le16toh(b) == b[1] + 256 * b[2]
le32toh(b) == U32(b[3] + 256 * b[4], b[1] + 256 * b[2])

\* The object representation of a uint16_t struct member (memcpy'd by the
\* flat writer for the appearance field): the supported targets are
\* little-endian.
HostBytes16(v) == << v % 256, (v \div 256) % 256 >>

----------------------------------------------------------------------------
(* Pointers.  A pointer is null, points to caller memory holding `data`,   *)
(* points into the parser's source buffer at offset `off`, or points to    *)
(* the UUID scratch storage named `stor`.                                  *)

NULL == [kind |-> "null", off |-> 0, stor |-> "", data |-> << >>]
MemPtr(bytes) == [kind |-> "mem", off |-> 0, stor |-> "", data |-> bytes]
SrcPtr(o) == [kind |-> "src", off |-> o, stor |-> "", data |-> << >>]
ScratchPtr(k, s) == [kind |-> k, off |-> 0, stor |-> s, data |-> << >>]

\* struct ble_hs_adv_fields after memset(0).
ZeroFields ==
    [flags |-> 0, flags_is_present |-> 0,
     uuids16 |-> NULL, num_uuids16 |-> 0, uuids16_is_complete |-> 0,
     uuids32 |-> NULL, num_uuids32 |-> 0, uuids32_is_complete |-> 0,
     uuids128 |-> NULL, num_uuids128 |-> 0, uuids128_is_complete |-> 0,
     name |-> NULL, name_len |-> 0, name_is_complete |-> 0,
     tx_pwr_lvl |-> 0, tx_pwr_lvl_is_present |-> 0,
     device_class |-> NULL,
     slave_itvl_range |-> NULL,
     svc_data_uuid16 |-> NULL, svc_data_uuid16_len |-> 0,
     public_tgt_addr |-> NULL, num_public_tgt_addrs |-> 0,
     appearance |-> 0, appearance_is_present |-> 0,
     adv_itvl |-> 0, adv_itvl_is_present |-> 0,
     le_addr |-> NULL,
     le_role |-> 0, le_role_is_present |-> 0,
     svc_data_uuid32 |-> NULL, svc_data_uuid32_len |-> 0,
     svc_data_uuid128 |-> NULL, svc_data_uuid128_len |-> 0,
     uri |-> NULL, uri_len |-> 0,
     mfg_data |-> NULL, mfg_data_len |-> 0]

----------------------------------------------------------------------------
(* Serialisation.  A writer state w is [dst, dst_len, rc, assert_ok]:      *)
(* dst maps each index written so far to the byte there, dst_len is the    *)
(* uint8_t cursor *dst_len, rc the writer's return value.                  *)

\* dst[at] = b
Poke(dst, at, b) == (at :> b) @@ dst

\* memcpy(dst + at, bytes, n); a byte the caller's object does not hold
\* reads as 0.
PokeSeq(dst, at, bytes, n) ==
    [j \in DOMAIN dst \cup at..(at + n - 1) |->
        IF j \in at..(at + n - 1)
        THEN IF j - at + 1 <= Len(bytes) THEN bytes[j - at + 1] ELSE 0
        ELSE dst[j]]

SetMax(S) == CHOOSE x \in S : \A y \in S : y <= x

ble_hs_adv_set_hdr(type, data_len, max_len, w) ==
    IF w.dst_len + 2 + data_len > max_len
    THEN [w EXCEPT !.rc = BLE_HS_EMSGSIZE]
    ELSE [w EXCEPT !.dst = Poke(Poke(w.dst, w.dst_len, U8(data_len + 1)),
                                w.dst_len + 1, type),
                   !.dst_len = U8(w.dst_len + 2),
                   !.rc = 0]

\* data_len is an int here and is narrowed to uint8_t for the header.
ble_hs_adv_set_flat(type, data_len, data, w, max_len) ==
    LET a == [w EXCEPT !.assert_ok = w.assert_ok /\ (data_len > 0)]
        h == ble_hs_adv_set_hdr(type, U8(data_len), max_len, a)
    IN  IF h.rc # 0 THEN h
        ELSE [h EXCEPT !.dst = PokeSeq(h.dst, h.dst_len, data, data_len),
                       !.dst_len = U8(h.dst_len + data_len)]

\* The element loop of the array writers.  Element i (1..num_elems) is
\* stored at the uint8_t cursor as it stands after i - 1 elements,
\* U8(dst_len + sz * (i - 1)), and the cursor advances by sz; a byte stored
\* twice keeps the later element's value.
ArrayLoop(w, elems, num_elems, sz) ==
    LET at(i) == U8(w.dst_len + sz * (i - 1))
        enc(i) == IF i > Len(elems) THEN [b \in 1..sz |-> 0]
                  ELSE IF sz = 2 THEN htole16(elems[i])
                  ELSE htole32(elems[i])
        writers(j) == {i \in 1..num_elems : j - at(i) \in 0..(sz - 1)}
        hit == UNION {at(i)..(at(i) + sz - 1) : i \in 1..num_elems}
    IN  [w EXCEPT
            !.dst = [j \in DOMAIN w.dst \cup hit |->
                        IF writers(j) # {}
                        THEN LET i == SetMax(writers(j))
                             IN  enc(i)[j - at(i) + 1]
                        ELSE w.dst[j]],
            !.dst_len = U8(w.dst_len + sz * num_elems)]

ble_hs_adv_set_array16(type, num_elems, elems, w, max_len) ==
    LET h == ble_hs_adv_set_hdr(type, U8(num_elems * 2), max_len, w)
    IN  IF h.rc # 0 THEN h ELSE ArrayLoop(h, elems, num_elems, 2)

ble_hs_adv_set_array32(type, num_elems, elems, w, max_len) ==
    LET h == ble_hs_adv_set_hdr(type, U8(num_elems * 4), max_len, w)
    IN  IF h.rc # 0 THEN h ELSE ArrayLoop(h, elems, num_elems, 4)

\* What one block of ble_hs_adv_set_fields did: whether its condition held
\* (emit), the writer state after it, and whether the function returns
\* there (with w.rc) instead of going on to the next block.
Skipped(w) == [emit |-> FALSE, w |-> w, returns |-> FALSE]
Checked(w) == [emit |-> TRUE, w |-> w, returns |-> w.rc # 0]
Unchecked(w) == [emit |-> TRUE, w |-> w, returns |-> FALSE]

\* 0x01 - Flags.  The writer's rc is not looked at.
SetFlags(f, w, max_len) ==
    IF f.flags_is_present # 0 /\ f.flags # 0
    THEN Unchecked(ble_hs_adv_set_flat(BLE_HS_ADV_TYPE_FLAGS, 1,
                                       << f.flags >>, w, max_len))
    ELSE Skipped(w)

\* 0x02,0x03 - 16-bit service class UUIDs.
SetUuids16(f, w, max_len) ==
    IF f.uuids16 # NULL /\ f.num_uuids16 # 0
    THEN Checked(ble_hs_adv_set_array16(
                     IF f.uuids16_is_complete # 0
                     THEN BLE_HS_ADV_TYPE_COMP_UUIDS16
                     ELSE BLE_HS_ADV_TYPE_INCOMP_UUIDS16,
                     f.num_uuids16, f.uuids16.data, w, max_len))
    ELSE Skipped(w)

\* 0x04,0x05 - 32-bit service class UUIDs.
SetUuids32(f, w, max_len) ==
    IF f.uuids32 # NULL /\ f.num_uuids32 # 0
    THEN Checked(ble_hs_adv_set_array32(
                     IF f.uuids32_is_complete # 0
                     THEN BLE_HS_ADV_TYPE_COMP_UUIDS32
                     ELSE BLE_HS_ADV_TYPE_INCOMP_UUIDS32,
                     f.num_uuids32, f.uuids32.data, w, max_len))
    ELSE Skipped(w)

\* 0x06,0x07 - 128-bit service class UUIDs.
SetUuids128(f, w, max_len) ==
    IF f.uuids128 # NULL /\ f.num_uuids128 > 0
    THEN Checked(ble_hs_adv_set_flat(
                     IF f.uuids128_is_complete # 0
                     THEN BLE_HS_ADV_TYPE_COMP_UUIDS128
                     ELSE BLE_HS_ADV_TYPE_INCOMP_UUIDS128,
                     f.num_uuids128 * 16, f.uuids128.data, w, max_len))
    ELSE Skipped(w)

\* 0x08,0x09 - Local name.
SetName(f, w, max_len) ==
    IF f.name # NULL /\ f.name_len > 0
    THEN Checked(ble_hs_adv_set_flat(
                     IF f.name_is_complete # 0
                     THEN BLE_HS_ADV_TYPE_COMP_NAME
                     ELSE BLE_HS_ADV_TYPE_INCOMP_NAME,
                     f.name_len, f.name.data, w, max_len))
    ELSE Skipped(w)

\* 0x0a - Tx power level.  hci is the outcome of
\* ble_hs_hci_util_read_adv_tx_pwr: [rc, tx_pwr_lvl].
SetTxPwrLvl(f, w, max_len, hci) ==
    IF f.tx_pwr_lvl_is_present # 0
    THEN IF f.tx_pwr_lvl = BLE_HS_ADV_TX_PWR_LVL_AUTO /\ hci.rc # 0
         THEN [emit |-> TRUE, w |-> [w EXCEPT !.rc = hci.rc],
               returns |-> TRUE]
         ELSE LET tx_pwr_lvl ==
                      IF f.tx_pwr_lvl = BLE_HS_ADV_TX_PWR_LVL_AUTO
                      THEN hci.tx_pwr_lvl ELSE f.tx_pwr_lvl
              IN  Checked(ble_hs_adv_set_flat(BLE_HS_ADV_TYPE_TX_PWR_LVL, 1,
                                              << I8ToByte(tx_pwr_lvl) >>,
                                              w, max_len))
    ELSE Skipped(w)

\* 0x0d - Class of device.
SetDeviceClass(f, w, max_len) ==
    IF f.device_class # NULL
    THEN Checked(ble_hs_adv_set_flat(BLE_HS_ADV_TYPE_DEVICE_CLASS,
                                     BLE_HS_ADV_DEVICE_CLASS_LEN,
                                     f.device_class.data, w, max_len))
    ELSE Skipped(w)

\* 0x12 - Slave connection interval range.
SetSlaveItvlRange(f, w, max_len) ==
    IF f.slave_itvl_range # NULL
    THEN Checked(ble_hs_adv_set_flat(BLE_HS_ADV_TYPE_SLAVE_ITVL_RANGE,
                                     BLE_HS_ADV_SLAVE_ITVL_RANGE_LEN,
                                     f.slave_itvl_range.data, w, max_len))
    ELSE Skipped(w)

\* 0x16 - Service data - 16-bit UUID.
SetSvcDataUuid16(f, w, max_len) ==
    IF f.svc_data_uuid16 # NULL
    THEN Checked(ble_hs_adv_set_flat(BLE_HS_ADV_TYPE_SVC_DATA_UUID16,
                                     f.svc_data_uuid16_len,
                                     f.svc_data_uuid16.data, w, max_len))
    ELSE Skipped(w)

\* 0x17 - Public target address.
SetPublicTgtAddr(f, w, max_len) ==
    IF f.public_tgt_addr # NULL /\ f.num_public_tgt_addrs # 0
    THEN Checked(ble_hs_adv_set_flat(
                     BLE_HS_ADV_TYPE_PUBLIC_TGT_ADDR,
                     BLE_HS_ADV_PUBLIC_TGT_ADDR_ENTRY_LEN
                         * f.num_public_tgt_addrs,
                     f.public_tgt_addr.data, w, max_len))
    ELSE Skipped(w)

\* 0x19 - Appearance.
SetAppearance(f, w, max_len) ==
    IF f.appearance_is_present # 0
    THEN Checked(ble_hs_adv_set_flat(BLE_HS_ADV_TYPE_APPEARANCE,
                                     BLE_HS_ADV_APPEARANCE_LEN,
                                     HostBytes16(f.appearance), w, max_len))
    ELSE Skipped(w)

\* 0x1a - Advertising interval.
SetAdvItvl(f, w, max_len) ==
    IF f.adv_itvl_is_present # 0
    THEN Checked(ble_hs_adv_set_array16(BLE_HS_ADV_TYPE_ADV_ITVL, 1,
                                        << f.adv_itvl >>, w, max_len))
    ELSE Skipped(w)

\* 0x1b - LE bluetooth device address.
SetLeAddr(f, w, max_len) ==
    IF f.le_addr # NULL
    THEN Checked(ble_hs_adv_set_flat(BLE_HS_ADV_TYPE_LE_ADDR,
                                     BLE_HS_ADV_LE_ADDR_LEN,
                                     f.le_addr.data, w, max_len))
    ELSE Skipped(w)

\* 0x1c - LE role.
SetLeRole(f, w, max_len) ==
    IF f.le_role_is_present # 0
    THEN Checked(ble_hs_adv_set_flat(BLE_HS_ADV_TYPE_LE_ROLE,
                                     BLE_HS_ADV_LE_ROLE_LEN,
                                     << f.le_role >>, w, max_len))
    ELSE Skipped(w)

\* 0x20 - Service data - 32-bit UUID.
SetSvcDataUuid32(f, w, max_len) ==
    IF f.svc_data_uuid32 # NULL
    THEN Checked(ble_hs_adv_set_flat(BLE_HS_ADV_TYPE_SVC_DATA_UUID32,
                                     f.svc_data_uuid32_len,
                                     f.svc_data_uuid32.data, w, max_len))
    ELSE Skipped(w)

\* 0x21 - Service data - 128-bit UUID.
SetSvcDataUuid128(f, w, max_len) ==
    IF f.svc_data_uuid128 # NULL
    THEN Checked(ble_hs_adv_set_flat(BLE_HS_ADV_TYPE_SVC_DATA_UUID128,
                                     f.svc_data_uuid128_len,
                                     f.svc_data_uuid128.data, w, max_len))
    ELSE Skipped(w)

\* 0x24 - URI.
SetUri(f, w, max_len) ==
    IF f.uri # NULL
    THEN Checked(ble_hs_adv_set_flat(BLE_HS_ADV_TYPE_URI, f.uri_len,
                                     f.uri.data, w, max_len))
    ELSE Skipped(w)

\* 0xff - Manufacturer specific data.
SetMfgData(f, w, max_len) ==
    IF f.mfg_data # NULL
    THEN Checked(ble_hs_adv_set_flat(BLE_HS_ADV_TYPE_MFG_DATA,
                                     f.mfg_data_len, f.mfg_data.data,
                                     w, max_len))
    ELSE Skipped(w)

\* The blocks of ble_hs_adv_set_fields in the order of the code.
Blocks ==
    << "flags", "uuids16", "uuids32", "uuids128", "name", "tx_pwr_lvl",
       "device_class", "slave_itvl_range", "svc_data_uuid16",
       "public_tgt_addr", "appearance", "adv_itvl", "le_addr", "le_role",
       "svc_data_uuid32", "svc_data_uuid128", "uri", "mfg_data" >>

SetFieldsBlock(k, f, w, max_len, hci) ==
    CASE Blocks[k] = "flags" -> SetFlags(f, w, max_len)
      [] Blocks[k] = "uuids16" -> SetUuids16(f, w, max_len)
      [] Blocks[k] = "uuids32" -> SetUuids32(f, w, max_len)
      [] Blocks[k] = "uuids128" -> SetUuids128(f, w, max_len)
      [] Blocks[k] = "name" -> SetName(f, w, max_len)
      [] Blocks[k] = "tx_pwr_lvl" -> SetTxPwrLvl(f, w, max_len, hci)
      [] Blocks[k] = "device_class" -> SetDeviceClass(f, w, max_len)
      [] Blocks[k] = "slave_itvl_range" -> SetSlaveItvlRange(f, w, max_len)
      [] Blocks[k] = "svc_data_uuid16" -> SetSvcDataUuid16(f, w, max_len)
      [] Blocks[k] = "public_tgt_addr" -> SetPublicTgtAddr(f, w, max_len)
      [] Blocks[k] = "appearance" -> SetAppearance(f, w, max_len)
      [] Blocks[k] = "adv_itvl" -> SetAdvItvl(f, w, max_len)
      [] Blocks[k] = "le_addr" -> SetLeAddr(f, w, max_len)
      [] Blocks[k] = "le_role" -> SetLeRole(f, w, max_len)
      [] Blocks[k] = "svc_data_uuid32" -> SetSvcDataUuid32(f, w, max_len)
      [] Blocks[k] = "svc_data_uuid128" -> SetSvcDataUuid128(f, w, max_len)
      [] Blocks[k] = "uri" -> SetUri(f, w, max_len)
      [] Blocks[k] = "mfg_data" -> SetMfgData(f, w, max_len)

----------------------------------------------------------------------------
(* Parsing.  src is the caller's buffer (a sequence; C offset o is          *)
(* src[o + 1]).  The UUID scratch arrays are maps from a storage name to    *)
(* the array's contents.                                                    *)

\* The n bytes at C offset off of the byte sequence s.
Bytes(s, off, n) == [i \in 1..n |-> s[off + i]]

\* static uint16_t ble_hs_adv_uuids16[BLE_HS_ADV_MAX_FIELD_SZ / 2] and
\* static uint32_t ble_hs_adv_uuids32[BLE_HS_ADV_MAX_FIELD_SZ / 4]: one array
\* each for the whole program, whichever call uses it.
Uuids16StoragePerCall(c) == c
Uuids16Storage(c) == "static"
Uuids32Storage(c) == "static"

ScratchInit(n, zero) == [i \in 1..n |-> zero]

\* Result of a per-type parser: rc, the field-set, the scratch arrays and
\* the number of payload bytes it read by value.
PResult(rc, f, u16, u32, nread) ==
    [rc |-> rc, fields |-> f, u16 |-> u16, u32 |-> u32, nread |-> nread]

\* ble_hs_adv_parse_uuids16 without its length check.
ble_hs_adv_parse_uuids16_unchecked(f, data, data_len, u16, u32, stor) ==
    LET n == data_len \div 2
    IN  PResult(0,
                [f EXCEPT !.uuids16 = ScratchPtr("uuids16", stor),
                          !.num_uuids16 = n],
                [u16 EXCEPT ![stor] =
                    [i \in 1..Len(@) |->
                        IF i <= n
                        THEN le16toh(Bytes(data, (i - 1) * 2, 2))
                        ELSE @[i]]],
                u32, data_len)

ble_hs_adv_parse_uuids16(f, data, data_len, u16, u32, stor) ==
    IF data_len % 2 # 0
    THEN PResult(BLE_HS_EBADDATA, f, u16, u32, 0)
    ELSE LET n == data_len \div 2
         IN  PResult(0,
                     [f EXCEPT !.uuids16 = ScratchPtr("uuids16", stor),
                               !.num_uuids16 = n],
                     [u16 EXCEPT ![stor] =
                         [i \in 1..Len(@) |->
                             IF i <= n
                             THEN le16toh(Bytes(data, (i - 1) * 2, 2))
                             ELSE @[i]]],
                     u32, data_len)

ble_hs_adv_parse_uuids32(f, data, data_len, u16, u32, stor) ==
    IF data_len % 4 # 0
    THEN PResult(BLE_HS_EBADDATA, f, u16, u32, 0)
    ELSE LET n == data_len \div 4
         IN  PResult(0,
                     [f EXCEPT !.uuids32 = ScratchPtr("uuids32", stor),
                               !.num_uuids32 = n],
                     u16,
                     [u32 EXCEPT ![stor] =
                         [i \in 1..Len(@) |->
                             IF i <= n
                             THEN le32toh(Bytes(data, (i - 1) * 4, 4))
                             ELSE @[i]]],
                     data_len)

\* A payload length that breaks the type's length rule.
BadData(f, u16, u32) == PResult(BLE_HS_EBADDATA, f, u16, u32, 0)

\* The switch of ble_hs_adv_parse_one_field.  data is the payload, doff its
\* C offset in the source buffer, s16/s32 the scratch storage in use.
ParseSwitch(f, type, data, doff, data_len, u16, u32, s16, s32) ==
    CASE type = BLE_HS_ADV_TYPE_FLAGS ->
           IF data_len # BLE_HS_ADV_FLAGS_LEN THEN BadData(f, u16, u32)
           ELSE PResult(0, [f EXCEPT !.flags = data[1],
                                     !.flags_is_present = 1], u16, u32, 1)
      [] type = BLE_HS_ADV_TYPE_INCOMP_UUIDS16 ->
           LET r == ble_hs_adv_parse_uuids16(f, data, data_len, u16, u32, s16)
           IN  IF r.rc # 0 THEN r
               ELSE [r EXCEPT !.fields.uuids16_is_complete = 0]
      [] type = BLE_HS_ADV_TYPE_COMP_UUIDS16 ->
           LET r == ble_hs_adv_parse_uuids16(f, data, data_len, u16, u32, s16)
           IN  IF r.rc # 0 THEN r
               ELSE [r EXCEPT !.fields.uuids16_is_complete = 1]
      [] type = BLE_HS_ADV_TYPE_INCOMP_UUIDS32 ->
           LET r == ble_hs_adv_parse_uuids32(f, data, data_len, u16, u32, s32)
           IN  IF r.rc # 0 THEN r
               ELSE [r EXCEPT !.fields.uuids16_is_complete = 0]
      [] type = BLE_HS_ADV_TYPE_COMP_UUIDS32 ->
           LET r == ble_hs_adv_parse_uuids32(f, data, data_len, u16, u32, s32)
           IN  IF r.rc # 0 THEN r
               ELSE [r EXCEPT !.fields.uuids16_is_complete = 1]
      [] type = BLE_HS_ADV_TYPE_INCOMP_UUIDS128 ->
           IF data_len % 16 # 0 THEN BadData(f, u16, u32)
           ELSE PResult(0, [f EXCEPT !.uuids128 = SrcPtr(doff),
                                     !.num_uuids128 = data_len \div 16,
                                     !.uuids128_is_complete = 0],
                        u16, u32, 0)
      [] type = BLE_HS_ADV_TYPE_COMP_UUIDS128 ->
           IF data_len % 16 # 0 THEN BadData(f, u16, u32)
           ELSE PResult(0, [f EXCEPT !.uuids128 = SrcPtr(doff),
                                     !.num_uuids128 = data_len \div 16,
                                     !.uuids128_is_complete = 1],
                        u16, u32, 0)
      [] type = BLE_HS_ADV_TYPE_INCOMP_NAME ->
           PResult(0, [f EXCEPT !.name = SrcPtr(doff),
                                !.name_len = data_len,
                                !.name_is_complete = 0], u16, u32, 0)
      [] type = BLE_HS_ADV_TYPE_COMP_NAME ->
           PResult(0, [f EXCEPT !.name = SrcPtr(doff),
                                !.name_len = data_len,
                                !.name_is_complete = 1], u16, u32, 0)
      [] type = BLE_HS_ADV_TYPE_TX_PWR_LVL ->
           IF data_len # BLE_HS_ADV_TX_PWR_LVL_LEN THEN BadData(f, u16, u32)
           ELSE PResult(0, [f EXCEPT !.tx_pwr_lvl = ByteToI8(data[1]),
                                     !.tx_pwr_lvl_is_present = 1],
                        u16, u32, 1)
      [] type = BLE_HS_ADV_TYPE_DEVICE_CLASS ->
           IF data_len # BLE_HS_ADV_DEVICE_CLASS_LEN
           THEN BadData(f, u16, u32)
           ELSE PResult(0, [f EXCEPT !.device_class = SrcPtr(doff)],
                        u16, u32, 0)
      [] type = BLE_HS_ADV_TYPE_SLAVE_ITVL_RANGE ->
           IF data_len # BLE_HS_ADV_SLAVE_ITVL_RANGE_LEN
           THEN BadData(f, u16, u32)
           ELSE PResult(0, [f EXCEPT !.slave_itvl_range = SrcPtr(doff)],
                        u16, u32, 0)
      [] type = BLE_HS_ADV_TYPE_SVC_DATA_UUID16 ->
           IF data_len < BLE_HS_ADV_SVC_DATA_UUID16_MIN_LEN
           THEN BadData(f, u16, u32)
           ELSE PResult(0, [f EXCEPT !.svc_data_uuid16 = SrcPtr(doff),
                                     !.svc_data_uuid16_len = data_len],
                        u16, u32, 0)
      [] type = BLE_HS_ADV_TYPE_PUBLIC_TGT_ADDR ->
           IF data_len % BLE_HS_ADV_PUBLIC_TGT_ADDR_ENTRY_LEN # 0
           THEN BadData(f, u16, u32)
           ELSE PResult(0, [f EXCEPT !.public_tgt_addr = SrcPtr(doff),
                                     !.num_public_tgt_addrs =
                                         data_len \div
                                         BLE_HS_ADV_PUBLIC_TGT_ADDR_ENTRY_LEN],
                        u16, u32, 0)
      [] type = BLE_HS_ADV_TYPE_APPEARANCE ->
           IF data_len # BLE_HS_ADV_APPEARANCE_LEN THEN BadData(f, u16, u32)
           ELSE PResult(0, [f EXCEPT !.appearance = le16toh(data),
                                     !.appearance_is_present = 1],
                        u16, u32, 2)
      [] type = BLE_HS_ADV_TYPE_ADV_ITVL ->
           IF data_len # BLE_HS_ADV_ADV_ITVL_LEN THEN BadData(f, u16, u32)
           ELSE PResult(0, [f EXCEPT !.adv_itvl = le16toh(data),
                                     !.adv_itvl_is_present = 1],
                        u16, u32, 2)
      [] type = BLE_HS_ADV_TYPE_LE_ADDR ->
           IF data_len # BLE_HS_ADV_LE_ADDR_LEN THEN BadData(f, u16, u32)
           ELSE PResult(0, [f EXCEPT !.le_addr = SrcPtr(doff)], u16, u32, 0)
      [] type = BLE_HS_ADV_TYPE_LE_ROLE ->
           IF data_len # BLE_HS_ADV_LE_ROLE_LEN THEN BadData(f, u16, u32)
           ELSE PResult(0, [f EXCEPT !.le_role = data[1],
                                     !.le_role_is_present = 1], u16, u32, 1)
      [] type = BLE_HS_ADV_TYPE_SVC_DATA_UUID32 ->
           IF data_len < BLE_HS_ADV_SVC_DATA_UUID32_MIN_LEN
           THEN BadData(f, u16, u32)
           ELSE PResult(0, [f EXCEPT !.svc_data_uuid32 = SrcPtr(doff),
                                     !.svc_data_uuid32_len = data_len],
                        u16, u32, 0)
      [] type = BLE_HS_ADV_TYPE_SVC_DATA_UUID128 ->
           IF data_len < BLE_HS_ADV_SVC_DATA_UUID128_MIN_LEN
           THEN BadData(f, u16, u32)
           ELSE PResult(0, [f EXCEPT !.svc_data_uuid128 = SrcPtr(doff),
                                     !.svc_data_uuid128_len = data_len],
                        u16, u32, 0)
      [] type = BLE_HS_ADV_TYPE_URI ->
           PResult(0, [f EXCEPT !.uri = SrcPtr(doff), !.uri_len = data_len],
                   u16, u32, 0)
      [] type = BLE_HS_ADV_TYPE_MFG_DATA ->
           PResult(0, [f EXCEPT !.mfg_data = SrcPtr(doff),
                                !.mfg_data_len = data_len], u16, u32, 0)
      [] OTHER -> PResult(0, f, u16, u32, 0)

\* *total_len = src[0], the length byte taken for the record's size.
FieldTotalLenNoLengthByte(len_byte) == U8(len_byte)

\* *total_len = src[0] + 1, stored in a uint8_t.
FieldTotalLen(len_byte) == U8(len_byte + 1)

\* A data length that stops at 0 where the uint8_t subtraction wraps.
FieldDataLenNoWrap(total_len) == IF total_len < 2 THEN 0 ELSE total_len - 2

\* data_len = *total_len - 2, stored in a uint8_t.
FieldDataLen(total_len) == U8(total_len - 2)

\* ble_hs_adv_parse_one_field on the record at C offset off with src_len
\* bytes left.  type is the byte the read of src[1] returned.  The result
\* adds total_len and the set of C offsets of the source that were read.
ble_hs_adv_parse_one_field(f, src, off, src_len, type, u16, u32, s16, s32) ==
    LET fail(rc, tl, rd) ==
            [rc |-> rc, total_len |-> tl, fields |-> f, u16 |-> u16,
             u32 |-> u32, reads |-> rd]
    IN  IF src_len < 1 THEN fail(BLE_HS_EMSGSIZE, 0, {})
        ELSE LET total_len == FieldTotalLen(src[off + 1])
                 data_len == FieldDataLen(total_len)
             IN  IF src_len < total_len
                 THEN fail(BLE_HS_EMSGSIZE, total_len, {off})
                 ELSE IF data_len > BLE_HS_ADV_MAX_FIELD_SZ
                 THEN fail(BLE_HS_EBADDATA, total_len, {off, off + 1})
                 ELSE LET r == ParseSwitch(f, type,
                                           Bytes(src, off + 2, data_len),
                                           off + 2, data_len, u16, u32,
                                           s16, s32)
                      IN  [rc |-> r.rc, total_len |-> total_len,
                           fields |-> r.fields, u16 |-> r.u16,
                           u32 |-> r.u32,
                           reads |-> {off, off + 1}
                                     \cup {off + 1 + i : i \in 1..r.nread}]

----------------------------------------------------------------------------
(* State.                                                                  *)

\* Execution contexts that call the parser.
Ctx == {"a", "b"}

VARIABLES
    \* ble_hs_adv_set_fields
    bpc,          \* "idle", "run" (before block bk), "done"
    bk,           \* index in Blocks of the next block
    bfields,      \* *adv_fields, the caller's field-set
    max_len,      \* max_len
    wr,           \* [dst, dst_len, rc, assert_ok]
    bret,         \* the value returned
    blog,         \* one entry per block whose condition held
    \* ble_hs_adv_parse_fields, per context
    ppc,          \* "idle", "loop", "done"
    src,          \* the caller's source buffer
    poff,         \* how far the src pointer has advanced
    src_len,      \* the uint8_t src_len
    adv_fields,   \* *adv_fields, the output field-set
    prc,          \* the value returned
    reads,        \* C offsets of the source buffer read so far
    \* file scope
    ble_hs_adv_uuids16,
    ble_hs_adv_uuids32,
    last16,       \* the context whose call last filled a uuids16 array
    last32        \* the context whose call last filled a uuids32 array

bvars == << bpc, bk, bfields, max_len, wr, bret, blog >>
pvars == << ppc, src, poff, src_len, adv_fields, prc, reads,
            ble_hs_adv_uuids16, ble_hs_adv_uuids32, last16, last32 >>
vars == << bpc, bk, bfields, max_len, wr, bret, blog,
           ppc, src, poff, src_len, adv_fields, prc, reads,
           ble_hs_adv_uuids16, ble_hs_adv_uuids32, last16, last32 >>

Storages == {"static"} \cup Ctx

Init ==
    /\ bpc = "idle"
    /\ bk = 1
    /\ bfields = ZeroFields
    /\ max_len = 0
    /\ wr = [dst |-> << >>, dst_len |-> 0, rc |-> 0, assert_ok |-> TRUE]
    /\ bret = 0
    /\ blog = << >>
    /\ ppc = [c \in Ctx |-> "idle"]
    /\ src = [c \in Ctx |-> << >>]
    /\ poff = [c \in Ctx |-> 0]
    /\ src_len = [c \in Ctx |-> 0]
    /\ adv_fields = [c \in Ctx |-> ZeroFields]
    /\ prc = [c \in Ctx |-> 0]
    /\ reads = [c \in Ctx |-> {}]
    /\ ble_hs_adv_uuids16 =
           [s \in Storages |->
               ScratchInit(BLE_HS_ADV_MAX_FIELD_SZ \div 2, 0)]
    /\ ble_hs_adv_uuids32 =
           [s \in Storages |->
               ScratchInit(BLE_HS_ADV_MAX_FIELD_SZ \div 4, U32(0, 0))]
    /\ last16 = "none"
    /\ last32 = "none"

----------------------------------------------------------------------------
(* ble_hs_adv_set_fields, one block per step.                              *)

\* What ble_hs_hci_util_read_adv_tx_pwr may answer.
HciOutcomes ==
    { [rc |-> 0, tx_pwr_lvl |-> -20],
      [rc |-> BLE_HS_ECONTROLLER, tx_pwr_lvl |-> 0] }

\* The controller is asked only by the tx power block in auto mode.
HciCalls(k, f) ==
    IF Blocks[k] = "tx_pwr_lvl" /\ f.tx_pwr_lvl_is_present # 0
       /\ f.tx_pwr_lvl = BLE_HS_ADV_TX_PWR_LVL_AUTO
    THEN HciOutcomes
    ELSE {[rc |-> 0, tx_pwr_lvl |-> 0]}

\* The payload length of block k's record, before any narrowing.
PayloadLen(k, f) ==
    CASE Blocks[k] = "uuids16" -> f.num_uuids16 * 2
      [] Blocks[k] = "uuids32" -> f.num_uuids32 * 4
      [] Blocks[k] = "uuids128" -> f.num_uuids128 * 16
      [] Blocks[k] = "name" -> f.name_len
      [] Blocks[k] = "device_class" -> BLE_HS_ADV_DEVICE_CLASS_LEN
      [] Blocks[k] = "slave_itvl_range" -> BLE_HS_ADV_SLAVE_ITVL_RANGE_LEN
      [] Blocks[k] = "svc_data_uuid16" -> f.svc_data_uuid16_len
      [] Blocks[k] = "public_tgt_addr" ->
           BLE_HS_ADV_PUBLIC_TGT_ADDR_ENTRY_LEN * f.num_public_tgt_addrs
      [] Blocks[k] = "appearance" -> BLE_HS_ADV_APPEARANCE_LEN
      [] Blocks[k] = "adv_itvl" -> 2
      [] Blocks[k] = "le_addr" -> BLE_HS_ADV_LE_ADDR_LEN
      [] Blocks[k] = "le_role" -> BLE_HS_ADV_LE_ROLE_LEN
      [] Blocks[k] = "svc_data_uuid32" -> f.svc_data_uuid32_len
      [] Blocks[k] = "svc_data_uuid128" -> f.svc_data_uuid128_len
      [] Blocks[k] = "uri" -> f.uri_len
      [] Blocks[k] = "mfg_data" -> f.mfg_data_len
      [] OTHER -> 1

\* Entry: *dst_len = 0.
SetFieldsCall(FieldSets, MaxLens) ==
    /\ bpc = "idle"
    /\ \E f \in FieldSets, ml \in MaxLens :
          /\ bfields' = f
          /\ max_len' = ml
    /\ bpc' = "run"
    /\ bk' = 1
    /\ wr' = [dst |-> << >>, dst_len |-> 0, rc |-> 0, assert_ok |-> TRUE]
    /\ bret' = 0
    /\ blog' = << >>
    /\ UNCHANGED pvars

SetFieldsStep ==
    /\ bpc = "run"
    /\ bk <= Len(Blocks)
    /\ \E hci \in HciCalls(bk, bfields) :
          \E r \in {SetFieldsBlock(bk, bfields, wr, max_len, hci)} :
              /\ wr' = r.w
              /\ blog' = IF r.emit
                         THEN Append(blog,
                                     [k |-> bk, rc |-> r.w.rc,
                                      payload |-> PayloadLen(bk, bfields),
                                      before |-> wr.dst_len,
                                      after |-> r.w.dst_len,
                                      wrote |-> r.w.dst # wr.dst])
                         ELSE blog
              /\ IF r.returns
                 THEN /\ bpc' = "done"
                      /\ bret' = r.w.rc
                      /\ bk' = bk
                 ELSE /\ bpc' = "run"
                      /\ bret' = bret
                      /\ bk' = bk + 1
    /\ UNCHANGED << bfields, max_len >>
    /\ UNCHANGED pvars

\* The final return 0.
SetFieldsReturn ==
    /\ bpc = "run"
    /\ bk > Len(Blocks)
    /\ bpc' = "done"
    /\ bret' = 0
    /\ UNCHANGED << bk, bfields, max_len, wr, blog >>
    /\ UNCHANGED pvars

----------------------------------------------------------------------------
(* ble_hs_adv_parse_fields, one record per step.                           *)

\* What the read of the type byte src[1] returns: the byte there, or, when
\* the record's length byte is the last byte of the buffer, whatever lies
\* behind the buffer.
BeyondBuffer == {0, BLE_HS_ADV_TYPE_FLAGS, BLE_HS_ADV_TYPE_COMP_NAME, 255}

TypeRead(s, off) ==
    IF off + 2 <= Len(s) THEN {s[off + 2]} ELSE BeyondBuffer

Uuids16Types ==
    {BLE_HS_ADV_TYPE_INCOMP_UUIDS16, BLE_HS_ADV_TYPE_COMP_UUIDS16}
Uuids32Types ==
    {BLE_HS_ADV_TYPE_INCOMP_UUIDS32, BLE_HS_ADV_TYPE_COMP_UUIDS32}

\* Entry: memset(adv_fields, 0, sizeof *adv_fields).
ParseCall(c, Buffers) ==
    /\ ppc[c] = "idle"
    /\ \E buf \in Buffers :
          /\ src' = [src EXCEPT ![c] = buf]
          /\ src_len' = [src_len EXCEPT ![c] = Len(buf)]
    /\ ppc' = [ppc EXCEPT ![c] = "loop"]
    /\ poff' = [poff EXCEPT ![c] = 0]
    /\ adv_fields' = [adv_fields EXCEPT ![c] = ZeroFields]
    /\ reads' = [reads EXCEPT ![c] = {}]
    /\ UNCHANGED << prc, ble_hs_adv_uuids16, ble_hs_adv_uuids32,
                    last16, last32 >>

\* One iteration of the while loop.
ParseStep(c) ==
    /\ ppc[c] = "loop"
    /\ src_len[c] > 0
    /\ \E type \in TypeRead(src[c], poff[c]) :
          \E r \in {ble_hs_adv_parse_one_field(
                        adv_fields[c], src[c], poff[c], src_len[c], type,
                        ble_hs_adv_uuids16, ble_hs_adv_uuids32,
                        Uuids16Storage(c), Uuids32Storage(c))} :
              /\ adv_fields' = [adv_fields EXCEPT ![c] = r.fields]
              /\ ble_hs_adv_uuids16' = r.u16
              /\ ble_hs_adv_uuids32' = r.u32
              /\ last16' = IF r.rc = 0 /\ type \in Uuids16Types
                           THEN c ELSE last16
              /\ last32' = IF r.rc = 0 /\ type \in Uuids32Types
                           THEN c ELSE last32
              /\ reads' = [reads EXCEPT ![c] = @ \cup r.reads]
              /\ IF r.rc # 0
                 THEN /\ ppc' = [ppc EXCEPT ![c] = "done"]
                      /\ prc' = [prc EXCEPT ![c] = r.rc]
                      /\ UNCHANGED << poff, src_len >>
                 ELSE /\ poff' = [poff EXCEPT ![c] = @ + r.total_len]
                      /\ src_len' = [src_len EXCEPT
                                         ![c] = U8(@ - r.total_len)]
                      /\ UNCHANGED << ppc, prc >>
    /\ UNCHANGED src

\* The loop ends: return 0.
ParseReturn(c) ==
    /\ ppc[c] = "loop"
    /\ src_len[c] = 0
    /\ ppc' = [ppc EXCEPT ![c] = "done"]
    /\ prc' = [prc EXCEPT ![c] = 0]
    /\ UNCHANGED << src, poff, src_len, adv_fields, reads,
                    ble_hs_adv_uuids16, ble_hs_adv_uuids32, last16, last32 >>

----------------------------------------------------------------------------
(* Inputs of the serialiser.                                               *)

\* n bytes of caller data.
Pat(n) == [i \in 1..n |-> 1 + (i % 200)]

\* n 16-bit / 32-bit UUIDs.
Pat16(n) == [i \in 1..n |-> 6144 + i]
Pat32(n) == [i \in 1..n |-> U32(43981, 4660 + i)]

\* At most this many attributes of a field-set are present.
MaxPresent == 2

\* Ways to make one attribute present, as the struct members to set.  The
\* counts are uint8_t members; 128 uuids16, 64 uuids32 and 16 uuids128 are
\* the smallest counts whose payload length is 256.
BuildPatches ==
    { [flags_is_present |-> 1, flags |-> v] : v \in {0, 6} }
    \cup { [uuids16 |-> MemPtr(Pat16(n)), num_uuids16 |-> n,
            uuids16_is_complete |-> b] : n \in {1, 128}, b \in {0, 1} }
    \cup { [uuids16 |-> MemPtr(Pat16(255)), num_uuids16 |-> 255] }
    \cup { [uuids32 |-> MemPtr(Pat32(n)), num_uuids32 |-> n,
            uuids32_is_complete |-> 1] : n \in {1, 64} }
    \cup { [uuids128 |-> MemPtr(Pat(n * 16)), num_uuids128 |-> n,
            uuids128_is_complete |-> 1] : n \in {1, 16} }
    \cup { [name |-> MemPtr(Pat(n)), name_len |-> n,
            name_is_complete |-> b] : n \in {3, 29}, b \in {0, 1} }
    \cup { [tx_pwr_lvl_is_present |-> 1, tx_pwr_lvl |-> v] :
              v \in {BLE_HS_ADV_TX_PWR_LVL_AUTO, 4} }
    \cup { [device_class |-> MemPtr(Pat(BLE_HS_ADV_DEVICE_CLASS_LEN))] }
    \cup { [slave_itvl_range |->
                MemPtr(Pat(BLE_HS_ADV_SLAVE_ITVL_RANGE_LEN))] }
    \cup { [svc_data_uuid16 |-> MemPtr(Pat(n)), svc_data_uuid16_len |-> n] :
              n \in {0, 3} }
    \cup { [public_tgt_addr |->
                MemPtr(Pat(BLE_HS_ADV_PUBLIC_TGT_ADDR_ENTRY_LEN)),
            num_public_tgt_addrs |-> 1] }
    \cup { [appearance_is_present |-> 1, appearance |-> 832] }
    \cup { [adv_itvl_is_present |-> 1, adv_itvl |-> 2048] }
    \cup { [le_addr |-> MemPtr(Pat(BLE_HS_ADV_LE_ADDR_LEN))] }
    \cup { [le_role_is_present |-> 1, le_role |-> 1] }
    \cup { [svc_data_uuid32 |-> MemPtr(Pat(n)), svc_data_uuid32_len |-> n] :
              n \in {5} }
    \cup { [svc_data_uuid128 |-> MemPtr(Pat(n)),
            svc_data_uuid128_len |-> n] : n \in {17} }
    \cup { [uri |-> MemPtr(Pat(n)), uri_len |-> n] : n \in {0, 4} }
    \cup { [mfg_data |-> MemPtr(Pat(n)), mfg_data_len |-> n] : n \in {0, 3} }

\* The field-sets made of at most n patches on the all-absent field-set.
RECURSIVE FieldSetsOf(_, _)
FieldSetsOf(P, n) ==
    IF n = 0 THEN {ZeroFields}
    ELSE LET S == FieldSetsOf(P, n - 1)
         IN  S \cup { p @@ f : p \in P, f \in S }

BuildFieldSets == FieldSetsOf(BuildPatches, MaxPresent)
BuildMaxLens == {0, 2, 3, 7, 31, 255}

NextBuild ==
    \/ SetFieldsCall(BuildFieldSets, BuildMaxLens)
    \/ SetFieldsStep
    \/ SetFieldsReturn

SpecBuild == Init /\ [][NextBuild]_vars

----------------------------------------------------------------------------
(* Claims about ble_hs_adv_set_fields.                                     *)

\* C1: during and after ble_hs_adv_set_fields the cursor *dst_len never
\* exceeds max_len and no byte at an index >= max_len is written, whatever
\* the element counts.
C1_WithinMaxLen ==
    bpc # "idle" =>
        /\ wr.dst_len <= max_len
        /\ \A j \in DOMAIN wr.dst : j < max_len

\* C3: if the writer of any present attribute fails, the flags included,
\* the call returns that error at once and writes no later attribute; so a
\* return of 0 means every attribute that was to be emitted was written.
C3_FailFast ==
    /\ \A i \in 1..Len(blog) :
          blog[i].rc # 0 =>
              /\ i = Len(blog)
              /\ bpc = "done"
              /\ bret = blog[i].rc
    /\ (bpc = "done" /\ bret = 0) =>
          \A i \in 1..Len(blog) : blog[i].rc = 0

\* The encoded sizes (payload + 2) of the records written before entry i.
RECURSIVE PriorSize(_)
PriorSize(i) ==
    IF i <= 1 THEN 0
    ELSE PriorSize(i - 1)
         + (IF blog[i - 1].rc = 0 THEN blog[i - 1].payload + 2 ELSE 0)

\* C7: a field that would push the total past max_len makes the call
\* return BLE_HS_EMSGSIZE; the field writes nothing and leaves the cursor,
\* which equals the sum of the encoded sizes of the fields before it.
\* (An entry with the controller's error never reached the writer.)
C7_SizeExceeded ==
    \A i \in 1..Len(blog) :
        (/\ blog[i].rc # BLE_HS_ECONTROLLER
         /\ blog[i].before + 2 + blog[i].payload > max_len) =>
            /\ blog[i].rc = BLE_HS_EMSGSIZE
            /\ ~blog[i].wrote
            /\ blog[i].after = blog[i].before
            /\ blog[i].before = PriorSize(i)
            /\ bpc = "done"
            /\ bret = BLE_HS_EMSGSIZE
            /\ wr.dst_len = PriorSize(i)

\* C9: the flat writer's assertion data_len > 0 holds on every call, and no
\* record of the output has length byte 1 (an empty value).
C9_NoEmptyRecord ==
    /\ wr.assert_ok
    /\ \A i \in 1..Len(blog) :
          (blog[i].rc = 0 /\ blog[i].before \in DOMAIN wr.dst) =>
              wr.dst[blog[i].before] # 1

----------------------------------------------------------------------------
(* Inputs of the parser.                                                   *)

\* One record: length byte L, type byte t and n payload bytes.  A record is
\* well framed when n = L - 1.
Record(L, t, n) == << L, t >> \o Pat(n)

KnownTypes ==
    { BLE_HS_ADV_TYPE_FLAGS, BLE_HS_ADV_TYPE_INCOMP_UUIDS16,
      BLE_HS_ADV_TYPE_COMP_UUIDS16, BLE_HS_ADV_TYPE_INCOMP_UUIDS32,
      BLE_HS_ADV_TYPE_COMP_UUIDS32, BLE_HS_ADV_TYPE_INCOMP_UUIDS128,
      BLE_HS_ADV_TYPE_COMP_UUIDS128, BLE_HS_ADV_TYPE_INCOMP_NAME,
      BLE_HS_ADV_TYPE_COMP_NAME, BLE_HS_ADV_TYPE_TX_PWR_LVL,
      BLE_HS_ADV_TYPE_DEVICE_CLASS, BLE_HS_ADV_TYPE_SLAVE_ITVL_RANGE,
      BLE_HS_ADV_TYPE_SVC_DATA_UUID16, BLE_HS_ADV_TYPE_PUBLIC_TGT_ADDR,
      BLE_HS_ADV_TYPE_APPEARANCE, BLE_HS_ADV_TYPE_ADV_ITVL,
      BLE_HS_ADV_TYPE_LE_ADDR, BLE_HS_ADV_TYPE_LE_ROLE,
      BLE_HS_ADV_TYPE_SVC_DATA_UUID32, BLE_HS_ADV_TYPE_SVC_DATA_UUID128,
      BLE_HS_ADV_TYPE_URI, BLE_HS_ADV_TYPE_MFG_DATA }

\* Type codes outside the table.
UnknownTypes == {0, 48}

\* Payload lengths that meet and that break each type's length rule, and
\* one above BLE_HS_ADV_MAX_FIELD_SZ.
PayloadLens == {0, 1, 2, 3, 4, 6, 7, 16, 29, 30}

\* The record under study: well framed of every type and payload length;
\* cut short; with length byte 0 or 255; a lone length byte.
FocusRecords ==
    { Record(n + 1, t, n) : t \in KnownTypes \cup UnknownTypes,
                            n \in PayloadLens }
    \cup { Record(L, t, n) :
              t \in {BLE_HS_ADV_TYPE_FLAGS, BLE_HS_ADV_TYPE_COMP_NAME, 48},
              L \in {2, 5, 254, 255}, n \in {0, 1} }
    \cup { Record(0, t, 0) :
              t \in {BLE_HS_ADV_TYPE_FLAGS, BLE_HS_ADV_TYPE_COMP_NAME, 48} }
    \cup { Record(L, t, 253) :
              t \in {BLE_HS_ADV_TYPE_MFG_DATA, 48}, L \in {254, 255} }
    \cup { << L >> : L \in {0, 1, 2, 255} }

\* Well-formed records placed before and after it.
ContextRecords ==
    { Record(2, BLE_HS_ADV_TYPE_FLAGS, 1),
      Record(3, BLE_HS_ADV_TYPE_COMP_NAME, 2),
      Record(3, BLE_HS_ADV_TYPE_COMP_UUIDS16, 2),
      Record(2, 48, 1) }

\* At most this many records before, and after, the record under study.
MaxPrefix == 1
MaxSuffix == 1

RECURSIVE Runs(_)
Runs(n) ==
    IF n = 0 THEN {<< >>}
    ELSE LET S == Runs(n - 1)
         IN  S \cup { r \o s : r \in ContextRecords, s \in S }

\* src_len is a uint8_t: a buffer holds at most 255 bytes.
ParseBuffers ==
    {<< >>} \cup
    { b \in { p \o f \o q : p \in Runs(MaxPrefix), f \in FocusRecords,
                            q \in Runs(MaxSuffix) } : Len(b) <= 255 }

NextParse ==
    \/ ParseCall("a", ParseBuffers) /\ UNCHANGED bvars
    \/ ParseStep("a") /\ UNCHANGED bvars
    \/ ParseReturn("a") /\ UNCHANGED bvars

SpecParse == Init /\ [][NextParse]_vars

----------------------------------------------------------------------------
(* Claims about ble_hs_adv_parse_fields.                                   *)

\* Context c stands at the start of a record: the loop is about to parse
\* the record at poff[c] (or has stopped on it with an error).
AtRecord(c) == ppc[c] = "loop" /\ src_len[c] > 0
Stopped(c) == ppc[c] = "done" /\ src_len[c] > 0

\* The length byte of that record, and its type byte when the buffer holds
\* one.
LenByte(c) == src[c][poff[c] + 1]
HasTypeByte(c) == poff[c] + 2 <= Len(src[c])
TypeByte(c) == src[c][poff[c] + 2]

\* Context c takes a step of its loop.
Stepped(c) == reads'[c] # reads[c]

\* Self-consistent length: the type byte is counted and the record fits.
WellFramed(c) == LenByte(c) >= 1 /\ LenByte(c) + 1 <= src_len[c]

\* The length rules of the type table for a payload of n bytes.
BreaksRule(t, n) ==
    CASE t = BLE_HS_ADV_TYPE_FLAGS -> n # 1
      [] t \in Uuids16Types -> n % 2 # 0
      [] t \in Uuids32Types -> n % 4 # 0
      [] t \in {BLE_HS_ADV_TYPE_INCOMP_UUIDS128,
                BLE_HS_ADV_TYPE_COMP_UUIDS128} -> n % 16 # 0
      [] t = BLE_HS_ADV_TYPE_TX_PWR_LVL -> n # 1
      [] t = BLE_HS_ADV_TYPE_DEVICE_CLASS -> n # BLE_HS_ADV_DEVICE_CLASS_LEN
      [] t = BLE_HS_ADV_TYPE_SLAVE_ITVL_RANGE ->
           n # BLE_HS_ADV_SLAVE_ITVL_RANGE_LEN
      [] t = BLE_HS_ADV_TYPE_SVC_DATA_UUID16 ->
           n < BLE_HS_ADV_SVC_DATA_UUID16_MIN_LEN
      [] t = BLE_HS_ADV_TYPE_PUBLIC_TGT_ADDR ->
           n % BLE_HS_ADV_PUBLIC_TGT_ADDR_ENTRY_LEN # 0
      [] t = BLE_HS_ADV_TYPE_APPEARANCE -> n # 2
      [] t = BLE_HS_ADV_TYPE_ADV_ITVL -> n # 2
      [] t = BLE_HS_ADV_TYPE_LE_ADDR -> n # BLE_HS_ADV_LE_ADDR_LEN
      [] t = BLE_HS_ADV_TYPE_LE_ROLE -> n # 1
      [] t = BLE_HS_ADV_TYPE_SVC_DATA_UUID32 ->
           n < BLE_HS_ADV_SVC_DATA_UUID32_MIN_LEN
      [] t = BLE_HS_ADV_TYPE_SVC_DATA_UUID128 ->
           n < BLE_HS_ADV_SVC_DATA_UUID128_MIN_LEN
      [] OTHER -> FALSE

\* C4: a record whose length byte L implies more bytes than remain
\* (L + 1 > remaining length) makes the call fail with BLE_HS_EMSGSIZE and
\* with nothing else, for every L in 0..255.
C4_ShortRecordIsMsgSize ==
    \A c \in Ctx :
        (Stopped(c) /\ LenByte(c) + 1 > src_len[c]) =>
            prc[c] = BLE_HS_EMSGSIZE

\* C5 as claimed: a record of unknown type with a self-consistent length is
\* skipped: no error, no attribute changed, parsing goes on at the first
\* byte after the record.
C5_UnknownSkipped ==
    [][\A c \in Ctx :
          (/\ AtRecord(c) /\ Stepped(c)
           /\ WellFramed(c)
           /\ TypeByte(c) \notin KnownTypes) =>
              /\ ppc'[c] = "loop"
              /\ adv_fields'[c] = adv_fields[c]
              /\ ble_hs_adv_uuids16' = ble_hs_adv_uuids16
              /\ ble_hs_adv_uuids32' = ble_hs_adv_uuids32
              /\ poff'[c] = poff[c] + LenByte(c) + 1
              /\ src_len'[c] = src_len[c] - (LenByte(c) + 1)]_vars

\* C5 amended: the same, for a payload of at most BLE_HS_ADV_MAX_FIELD_SZ
\* bytes; a longer record is rejected whatever its type.
C5_UnknownSkippedUpToMaxFieldSz ==
    [][\A c \in Ctx :
          (/\ AtRecord(c) /\ Stepped(c)
           /\ WellFramed(c)
           /\ LenByte(c) - 1 <= BLE_HS_ADV_MAX_FIELD_SZ
           /\ TypeByte(c) \notin KnownTypes) =>
              /\ ppc'[c] = "loop"
              /\ adv_fields'[c] = adv_fields[c]
              /\ ble_hs_adv_uuids16' = ble_hs_adv_uuids16
              /\ ble_hs_adv_uuids32' = ble_hs_adv_uuids32
              /\ poff'[c] = poff[c] + LenByte(c) + 1
              /\ src_len'[c] = src_len[c] - (LenByte(c) + 1)]_vars

\* The call has succeeded on a buffer whose first record has an unknown type
\* and three payload bytes: the parser went on behind that record and a
\* later record set an attribute.
C5_Witness ==
    \E c \in Ctx :
        /\ ppc[c] = "done" /\ prc[c] = 0
        /\ Len(src[c]) > 4
        /\ src[c][1] = 4 /\ src[c][2] \notin KnownTypes
        /\ poff[c] > 5
        /\ adv_fields[c] # ZeroFields

\* C6: a record of a known type whose payload length breaks that type's
\* length rule makes the call return BLE_HS_EBADDATA at that record; the
\* record changes no attribute (and no scratch array), and the call is
\* over: the field-set keeps what the records before it set.
C6_BadLengthIsBadData ==
    [][\A c \in Ctx :
          /\ (/\ AtRecord(c) /\ Stepped(c)
              /\ WellFramed(c)
              /\ TypeByte(c) \in KnownTypes
              /\ BreaksRule(TypeByte(c), LenByte(c) - 1)) =>
                 /\ ppc'[c] = "done"
                 /\ prc'[c] = BLE_HS_EBADDATA
                 /\ adv_fields'[c] = adv_fields[c]
                 /\ ble_hs_adv_uuids16' = ble_hs_adv_uuids16
                 /\ ble_hs_adv_uuids32' = ble_hs_adv_uuids32
          /\ ppc[c] = "done" =>
                 /\ ppc'[c] = "done"
                 /\ adv_fields'[c] = adv_fields[c]]_vars

\* The call has stopped with BLE_HS_EBADDATA on a second record, a UUID16
\* list of odd payload length, and the field-set holds the first record's
\* attribute.
C6_Witness ==
    \E c \in Ctx :
        /\ Stopped(c) /\ prc[c] = BLE_HS_EBADDATA
        /\ poff[c] > 0
        /\ WellFramed(c)
        /\ TypeByte(c) \in Uuids16Types
        /\ (LenByte(c) - 1) % 2 = 1
        /\ adv_fields[c] # ZeroFields
        /\ adv_fields[c].uuids16 = NULL

\* A pointer member and its length in bytes.
Views(f) ==
    { << f.uuids128, f.num_uuids128 * 16 >>,
      << f.name, f.name_len >>,
      << f.device_class, BLE_HS_ADV_DEVICE_CLASS_LEN >>,
      << f.slave_itvl_range, BLE_HS_ADV_SLAVE_ITVL_RANGE_LEN >>,
      << f.svc_data_uuid16, f.svc_data_uuid16_len >>,
      << f.public_tgt_addr,
         f.num_public_tgt_addrs * BLE_HS_ADV_PUBLIC_TGT_ADDR_ENTRY_LEN >>,
      << f.le_addr, BLE_HS_ADV_LE_ADDR_LEN >>,
      << f.svc_data_uuid32, f.svc_data_uuid32_len >>,
      << f.svc_data_uuid128, f.svc_data_uuid128_len >>,
      << f.uri, f.uri_len >>,
      << f.mfg_data, f.mfg_data_len >> }

\* C10: the parser reads only offsets < src_len of the buffer it was given,
\* the type byte of each record included, and every view it stores lies
\* inside the buffer.
C10_NoOverrun ==
    \A c \in Ctx :
        /\ \A o \in reads[c] : o < Len(src[c])
        /\ \A v \in Views(adv_fields[c]) :
              v[1].kind = "src" => v[1].off + v[2] <= Len(src[c])

\* The loop of ble_hs_adv_parse_fields under the scheduling of a running
\* call: an iteration that can be taken is taken, and so is the return.
SpecParseFair ==
    /\ Init
    /\ [][NextParse]_vars
    /\ WF_vars(ParseStep("a") /\ UNCHANGED bvars)
    /\ WF_vars(ParseReturn("a") /\ UNCHANGED bvars)

\* One iteration at a record either returns an error, leaving the remaining
\* length alone, or advances by field_len with 2 <= field_len <= remaining
\* length, the remaining length going down by exactly field_len (no wrap);
\* a length byte of 0 or 255 ends the call with an error.
LoopIteration(c) ==
    AtRecord(c) =>
        \/ /\ ppc'[c] = "done"
           /\ prc'[c] # 0
           /\ src_len'[c] = src_len[c]
        \/ /\ ppc'[c] = "loop"
           /\ LenByte(c) \notin {0, 255}
           /\ LET field_len == poff'[c] - poff[c]
              IN  /\ 2 <= field_len
                  /\ field_len <= src_len[c]
                  /\ src_len'[c] = src_len[c] - field_len
                  /\ src_len'[c] < src_len[c]

\* C11: ble_hs_adv_parse_fields terminates for every buffer: each iteration
\* returns an error or consumes field_len with 2 <= field_len <= remaining
\* length, so the 8-bit remaining length strictly decreases and never
\* wraps; on success the remaining length is exactly 0 and the whole buffer
\* was consumed; every call that entered the loop returns.
C11_Terminates ==
    /\ [][LoopIteration("a")]_vars
    /\ []((ppc["a"] = "done" /\ prc["a"] = 0) =>
              (src_len["a"] = 0 /\ poff["a"] = Len(src["a"])))
    /\ (ppc["a"] = "loop") ~> (ppc["a"] = "done")

\* A call that consumed at least two records and returned 0 with nothing
\* left over.
C11_Witness ==
    /\ ppc["a"] = "done" /\ prc["a"] = 0
    /\ src_len["a"] = 0
    /\ Len(src["a"]) > 0
    /\ poff["a"] = Len(src["a"])
    /\ Len(src["a"]) > src["a"][1] + 1

\* A call that met a record with length byte 0 or 255 and returned an error.
C11_WitnessWrap ==
    /\ Stopped("a") /\ prc["a"] # 0
    /\ LenByte("a") \in {0, 255}
    /\ poff["a"] > 0

----------------------------------------------------------------------------
(* Serialise, then parse what was written.                                 *)

\* Ways to make one attribute present that the format can represent:
\* explicit nonzero flags, explicit tx power, non-empty lists and blobs of
\* a length the type's rule admits.
RoundTripPatches ==
    { [flags_is_present |-> 1, flags |-> 6] }
    \cup { [uuids16 |-> MemPtr(Pat16(n)), num_uuids16 |-> n,
            uuids16_is_complete |-> b] : n \in {1, 2}, b \in {0, 1} }
    \cup { [uuids32 |-> MemPtr(Pat32(1)), num_uuids32 |-> 1,
            uuids32_is_complete |-> b] : b \in {0, 1} }
    \cup { [uuids128 |-> MemPtr(Pat(16)), num_uuids128 |-> 1,
            uuids128_is_complete |-> b] : b \in {0, 1} }
    \cup { [name |-> MemPtr(<< 70, 111, 111 >>), name_len |-> 3,
            name_is_complete |-> b] : b \in {0, 1} }
    \cup { [tx_pwr_lvl_is_present |-> 1, tx_pwr_lvl |-> v] : v \in {-20, 4} }
    \cup { [device_class |-> MemPtr(Pat(BLE_HS_ADV_DEVICE_CLASS_LEN))] }
    \cup { [slave_itvl_range |->
                MemPtr(Pat(BLE_HS_ADV_SLAVE_ITVL_RANGE_LEN))] }
    \cup { [svc_data_uuid16 |-> MemPtr(Pat(3)), svc_data_uuid16_len |-> 3] }
    \cup { [public_tgt_addr |->
                MemPtr(Pat(BLE_HS_ADV_PUBLIC_TGT_ADDR_ENTRY_LEN)),
            num_public_tgt_addrs |-> 1] }
    \cup { [appearance_is_present |-> 1, appearance |-> 832] }
    \cup { [adv_itvl_is_present |-> 1, adv_itvl |-> 2048] }
    \cup { [le_addr |-> MemPtr(Pat(BLE_HS_ADV_LE_ADDR_LEN))] }
    \cup { [le_role_is_present |-> 1, le_role |-> 1] }
    \cup { [svc_data_uuid32 |-> MemPtr(Pat(5)), svc_data_uuid32_len |-> 5] }
    \cup { [svc_data_uuid128 |-> MemPtr(Pat(17)),
            svc_data_uuid128_len |-> 17] }
    \cup { [uri |-> MemPtr(Pat(4)), uri_len |-> 4] }
    \cup { [mfg_data |-> MemPtr(Pat(3)), mfg_data_len |-> 3] }

RoundTripFieldSets == FieldSetsOf(RoundTripPatches, MaxPresent)
RoundTripMaxLens == {31, 255}

\* The bytes dst[0 .. dst_len - 1].
DstBytes(w) ==
    [i \in 1..w.dst_len |-> IF (i - 1) \in DOMAIN w.dst
                            THEN w.dst[i - 1] ELSE 0]

\* The caller parses what a successful ble_hs_adv_set_fields produced.
ParseBuilt ==
    /\ bpc = "done"
    /\ bret = 0
    /\ ParseCall("a", {DstBytes(wr)})
    /\ UNCHANGED bvars

NextRoundTrip ==
    \/ SetFieldsCall(RoundTripFieldSets, RoundTripMaxLens)
    \/ SetFieldsStep
    \/ SetFieldsReturn
    \/ ParseBuilt
    \/ ParseStep("a") /\ UNCHANGED bvars
    \/ ParseReturn("a") /\ UNCHANGED bvars

SpecRoundTrip == Init /\ [][NextRoundTrip]_vars

\* The n elements (bytes, or UUIDs for the uuids16/uuids32 members) that
\* pointer p of context c's field-set designates.
Deref(p, n, c) ==
    CASE p.kind = "mem" -> SubSeq(p.data, 1, n)
      [] p.kind = "src" -> Bytes(src[c], p.off, n)
      [] p.kind = "uuids16" -> SubSeq(ble_hs_adv_uuids16[p.stor], 1, n)
      [] p.kind = "uuids32" -> SubSeq(ble_hs_adv_uuids32[p.stor], 1, n)
      [] OTHER -> << >>

SamePtr(p, q, n, c) ==
    /\ (p = NULL) <=> (q = NULL)
    /\ Deref(p, n, c) = Deref(q, n, c)

\* Field-set g, parsed by context c, equals the caller's field-set f:
\* member by member, a pointer member by what it points to.
FieldsEqual(f, g, c) ==
    /\ f.flags = g.flags
    /\ f.flags_is_present = g.flags_is_present
    /\ f.num_uuids16 = g.num_uuids16
    /\ f.uuids16_is_complete = g.uuids16_is_complete
    /\ SamePtr(f.uuids16, g.uuids16, f.num_uuids16, c)
    /\ f.num_uuids32 = g.num_uuids32
    /\ f.uuids32_is_complete = g.uuids32_is_complete
    /\ SamePtr(f.uuids32, g.uuids32, f.num_uuids32, c)
    /\ f.num_uuids128 = g.num_uuids128
    /\ f.uuids128_is_complete = g.uuids128_is_complete
    /\ SamePtr(f.uuids128, g.uuids128, f.num_uuids128 * 16, c)
    /\ f.name_len = g.name_len
    /\ f.name_is_complete = g.name_is_complete
    /\ SamePtr(f.name, g.name, f.name_len, c)
    /\ f.tx_pwr_lvl = g.tx_pwr_lvl
    /\ f.tx_pwr_lvl_is_present = g.tx_pwr_lvl_is_present
    /\ SamePtr(f.device_class, g.device_class,
               BLE_HS_ADV_DEVICE_CLASS_LEN, c)
    /\ SamePtr(f.slave_itvl_range, g.slave_itvl_range,
               BLE_HS_ADV_SLAVE_ITVL_RANGE_LEN, c)
    /\ f.svc_data_uuid16_len = g.svc_data_uuid16_len
    /\ SamePtr(f.svc_data_uuid16, g.svc_data_uuid16,
               f.svc_data_uuid16_len, c)
    /\ f.num_public_tgt_addrs = g.num_public_tgt_addrs
    /\ SamePtr(f.public_tgt_addr, g.public_tgt_addr,
               f.num_public_tgt_addrs
                   * BLE_HS_ADV_PUBLIC_TGT_ADDR_ENTRY_LEN, c)
    /\ f.appearance = g.appearance
    /\ f.appearance_is_present = g.appearance_is_present
    /\ f.adv_itvl = g.adv_itvl
    /\ f.adv_itvl_is_present = g.adv_itvl_is_present
    /\ SamePtr(f.le_addr, g.le_addr, BLE_HS_ADV_LE_ADDR_LEN, c)
    /\ f.le_role = g.le_role
    /\ f.le_role_is_present = g.le_role_is_present
    /\ f.svc_data_uuid32_len = g.svc_data_uuid32_len
    /\ SamePtr(f.svc_data_uuid32, g.svc_data_uuid32,
               f.svc_data_uuid32_len, c)
    /\ f.svc_data_uuid128_len = g.svc_data_uuid128_len
    /\ SamePtr(f.svc_data_uuid128, g.svc_data_uuid128,
               f.svc_data_uuid128_len, c)
    /\ f.uri_len = g.uri_len
    /\ SamePtr(f.uri, g.uri, f.uri_len, c)
    /\ f.mfg_data_len = g.mfg_data_len
    /\ SamePtr(f.mfg_data, g.mfg_data, f.mfg_data_len, c)

\* C2: for a representable field-set that fits in max_len, and every
\* combination of the is_complete flags, parsing the bytes that
\* ble_hs_adv_set_fields produced succeeds and yields a field-set equal to
\* the original, each list's own is_complete flag included.
C2_RoundTrip ==
    (bpc = "done" /\ bret = 0 /\ ppc["a"] = "done") =>
        /\ prc["a"] = 0
        /\ FieldsEqual(bfields, adv_fields["a"], "a")

\* The same without the is_complete flag of the uuids16 and uuids32 lists.
RoundTripButUuidFlags ==
    (bpc = "done" /\ bret = 0 /\ ppc["a"] = "done") =>
        /\ prc["a"] = 0
        /\ FieldsEqual([bfields EXCEPT !.uuids16_is_complete = 0,
                                       !.uuids32_is_complete = 0],
                       [adv_fields["a"] EXCEPT !.uuids16_is_complete = 0,
                                               !.uuids32_is_complete = 0],
                       "a")

----------------------------------------------------------------------------
(* Two contexts parse, their calls interleaved record by record.           *)

\* A complete-list record of the given 16-bit / 32-bit UUIDs.
RECURSIVE Flat16(_)
Flat16(us) == IF us = << >> THEN << >>
              ELSE htole16(Head(us)) \o Flat16(Tail(us))
RECURSIVE Flat32(_)
Flat32(us) == IF us = << >> THEN << >>
              ELSE htole32(Head(us)) \o Flat32(Tail(us))

Uuids16Record(us) ==
    << 2 * Len(us) + 1, BLE_HS_ADV_TYPE_COMP_UUIDS16 >> \o Flat16(us)
Uuids32Record(us) ==
    << 4 * Len(us) + 1, BLE_HS_ADV_TYPE_COMP_UUIDS32 >> \o Flat32(us)

SharedBuffers ==
    { Uuids16Record(<< 4369, 8738 >>),
      Uuids16Record(<< 13107 >>),
      Uuids32Record(<< U32(43707, 52445) >>),
      Uuids32Record(<< U32(258, 772), U32(65535, 65535) >>),
      Record(2, BLE_HS_ADV_TYPE_FLAGS, 1)
          \o Uuids16Record(<< 17476 >>)
          \o Uuids32Record(<< U32(21862, 30600) >>),
      Uuids32Record(<< U32(258, 772) >>)
          \o Uuids16Record(<< 13107, 21845 >>),
      Uuids16Record(<< 4369, 8738 >>)
          \o Record(3, BLE_HS_ADV_TYPE_COMP_NAME, 2),
      Record(2, BLE_HS_ADV_TYPE_FLAGS, 1) }

NextShared ==
    \E c \in Ctx :
        \/ ParseCall(c, SharedBuffers) /\ UNCHANGED bvars
        \/ ParseStep(c) /\ UNCHANGED bvars
        \/ ParseReturn(c) /\ UNCHANGED bvars

SpecShared == Init /\ [][NextShared]_vars

\* The UUIDs of the last UUID16 (k = 2) or UUID32 (k = 4) list record that
\* starts before C offset limit in the well-formed buffer s, walking the
\* records from C offset off; cur is the list found so far.
RECURSIVE EncodedUuids(_, _, _, _, _)
EncodedUuids(s, off, limit, k, cur) ==
    IF off >= limit \/ off + 2 > Len(s) THEN cur
    ELSE LET L == s[off + 1]
             t == s[off + 2]
             n == (L - 1) \div k
             mine == t \in (IF k = 2 THEN Uuids16Types ELSE Uuids32Types)
             us == [i \in 1..n |->
                      IF k = 2 THEN le16toh(Bytes(s, off + 2 + (i - 1) * 2, 2))
                      ELSE le32toh(Bytes(s, off + 2 + (i - 1) * 4, 4))]
         IN  EncodedUuids(s, off + L + 1, limit, k,
                          IF mine THEN us ELSE cur)

\* The UUID16 / UUID32 list that context c's own buffer encodes, as far as
\* c has parsed it.
Own16(c) == EncodedUuids(src[c], 0, poff[c], 2, << >>)
Own32(c) == EncodedUuids(src[c], 0, poff[c], 4, << >>)

\* The list seen through context c's field-set.
Seen16(c) == Deref(adv_fields[c].uuids16, adv_fields[c].num_uuids16, c)
Seen32(c) == Deref(adv_fields[c].uuids32, adv_fields[c].num_uuids32, c)

Prefix(q, n) == SubSeq(q, 1, n)

====
